---- MODULE Spec2Model ----
(***************************************************************************)
(* A model of the astroo1 computation pipeline: the position codec         *)
(* (natal_chart.degrees_to_zodiac / main.convert_to_degrees), the natal    *)
(* chart builder (natal_chart.calculate_natal_chart), the transit scanner  *)
(* (transit_waveforms.calculate_transit_waveforms and its route) and the   *)
(* aspect geometry of main.generate_aspect_plot.                           *)
(*                                                                         *)
(* Longitudes are Python floats.  A float is modelled exactly, as an       *)
(* IEEE-754 binary64 value sign * mant * 2^exp whose magnitude is held as  *)
(* a natural number in limbs, so that every +, -, *, / and % of the source *)
(* rounds as the interpreter rounds it.                                    *)
(***************************************************************************)
EXTENDS Integers, Sequences, FiniteSets, TLC

(***************************************************************************)
(* Natural numbers of any size: little-endian sequences of limbs below     *)
(* Base, without leading zero limbs; <<>> is zero.                         *)
(***************************************************************************)
Base == 2^15

RECURSIVE SmallBitLen(_)
SmallBitLen(v) == IF v = 0 THEN 0 ELSE 1 + SmallBitLen(v \div 2)

LimbBits == SmallBitLen(Base - 1)

RECURSIVE Pow2(_)
Pow2(n) == IF n = 0 THEN 1 ELSE 2 * Pow2(n - 1)

Rest(x) == IF x = <<>> THEN <<>> ELSE Tail(x)

Low(x) == IF x = <<>> THEN 0 ELSE Head(x)

RECURSIVE BNorm(_)
BNorm(x) ==
    IF x = <<>> THEN <<>>
    ELSE IF x[Len(x)] = 0 THEN BNorm(SubSeq(x, 1, Len(x) - 1)) ELSE x

RECURSIVE BOfInt(_)
BOfInt(n) == IF n = 0 THEN <<>> ELSE <<n % Base>> \o BOfInt(n \div Base)

RECURSIVE BToInt(_)
BToInt(x) == IF x = <<>> THEN 0 ELSE Head(x) + Base * BToInt(Tail(x))

RECURSIVE BAddC(_, _, _)
BAddC(x, y, c) ==
    IF x = <<>> /\ y = <<>> THEN BOfInt(c)
    ELSE LET s == Low(x) + Low(y) + c
         IN  <<s % Base>> \o BAddC(Rest(x), Rest(y), s \div Base)

BAdd(x, y) == BAddC(x, y, 0)

RECURSIVE BSubB(_, _, _)
BSubB(x, y, b) ==
    IF x = <<>> THEN <<>>
    ELSE LET d == Head(x) - Low(y) - b
         IN  <<IF d < 0 THEN d + Base ELSE d>>
                 \o BSubB(Tail(x), Rest(y), IF d < 0 THEN 1 ELSE 0)

\* x - y for x >= y
BSub(x, y) == BNorm(BSubB(x, y, 0))

RECURSIVE BCmpAt(_, _, _)
BCmpAt(x, y, i) ==
    IF i = 0 THEN 0
    ELSE IF x[i] < y[i] THEN -1
    ELSE IF x[i] > y[i] THEN 1
    ELSE BCmpAt(x, y, i - 1)

\* -1, 0 or 1 as x <, =, > y
BCmp(x, y) ==
    IF Len(x) # Len(y) THEN (IF Len(x) < Len(y) THEN -1 ELSE 1)
    ELSE BCmpAt(x, y, Len(x))

RECURSIVE BMulSmallC(_, _, _)
BMulSmallC(x, k, c) ==
    IF x = <<>> THEN BOfInt(c)
    ELSE LET p == Head(x) * k + c
         IN  <<p % Base>> \o BMulSmallC(Tail(x), k, p \div Base)

\* x * k for 0 <= k <= Base
BMulSmall(x, k) == IF k = 0 THEN <<>> ELSE BMulSmallC(x, k, 0)

BShiftLimb(x) == IF x = <<>> THEN <<>> ELSE <<0>> \o x

RECURSIVE BMul(_, _)
BMul(x, y) ==
    IF y = <<>> THEN <<>>
    ELSE BAdd(BMulSmall(x, Head(y)), BShiftLimb(BMul(x, Tail(y))))

\* <<quotient limbs (not normalised), remainder>> of x by k, 0 < k <= Base
RECURSIVE BDivRem(_, _)
BDivRem(x, k) ==
    IF x = <<>> THEN << <<>>, 0 >>
    ELSE LET hi  == BDivRem(Tail(x), k)
             cur == hi[2] * Base + Head(x)
         IN  << <<cur \div k>> \o hi[1], cur % k >>

BDiv(x, k) == BNorm(BDivRem(x, k)[1])

BRem(x, k) == BDivRem(x, k)[2]

RECURSIVE BShiftLimbs(_, _)
BShiftLimbs(x, n) == IF n = 0 THEN x ELSE BShiftLimbs(BShiftLimb(x), n - 1)

\* x * 2^n
BShl(x, n) == BMulSmall(BShiftLimbs(x, n \div LimbBits), Pow2(n % LimbBits))

\* floor(x / 2^n)
BShr(x, n) ==
    LET k == n \div LimbBits
    IN  IF k >= Len(x) THEN <<>>
        ELSE BDiv(SubSeq(x, k + 1, Len(x)), Pow2(n % LimbBits))

\* x mod 2^n
BLowBits(x, n) == BSub(x, BShl(BShr(x, n), n))

BBitLen(x) ==
    IF x = <<>> THEN 0 ELSE LimbBits * (Len(x) - 1) + SmallBitLen(x[Len(x)])

BIsOdd(x) == x # <<>> /\ Head(x) % 2 = 1

(***************************************************************************)
(* Dyadic numbers [neg, mant, exp] = (-1)^neg * mant * 2^exp, kept         *)
(* canonical (mant odd, or Zero), so that two equal values are equal       *)
(* records.  D-operators are exact; F-operators round the exact result to  *)
(* a float as IEEE-754 does (to nearest, ties to even).                    *)
(***************************************************************************)
Zero == [neg |-> FALSE, mant |-> <<>>, exp |-> 0]

RECURSIVE StripLimbs(_, _)
StripLimbs(m, e) ==
    IF Head(m) = 0 THEN StripLimbs(Tail(m), e + LimbBits) ELSE <<m, e>>

RECURSIVE StripBits(_, _)
StripBits(m, e) ==
    IF Head(m) % 2 = 0 THEN StripBits(BDiv(m, 2), e + 1) ELSE <<m, e>>

DNorm(neg, m, e) ==
    IF m = <<>> THEN Zero
    ELSE LET a == StripLimbs(m, e)
             b == StripBits(a[1], a[2])
         IN  [neg |-> neg, mant |-> b[1], exp |-> b[2]]

DOfInt(n) == DNorm(n < 0, BOfInt(IF n < 0 THEN -n ELSE n), 0)

DNeg(x) == IF x.mant = <<>> THEN x ELSE [x EXCEPT !.neg = ~x.neg]

DAbs(x) == [x EXCEPT !.neg = FALSE]

DAdd(x, y) ==
    LET e == IF x.exp < y.exp THEN x.exp ELSE y.exp
        a == BShl(x.mant, x.exp - e)
        b == BShl(y.mant, y.exp - e)
        c == BCmp(a, b)
    IN  IF x.neg = y.neg THEN DNorm(x.neg, BAdd(a, b), e)
        ELSE IF c = 0 THEN Zero
        ELSE IF c > 0 THEN DNorm(x.neg, BSub(a, b), e)
        ELSE DNorm(y.neg, BSub(b, a), e)

DSub(x, y) == DAdd(x, DNeg(y))

DMul(x, y) == DNorm(x.neg # y.neg, BMul(x.mant, y.mant), x.exp + y.exp)

DSign(x) == IF x.mant = <<>> THEN 0 ELSE IF x.neg THEN -1 ELSE 1

DCmp(x, y) == DSign(DSub(x, y))

DLe(x, y) == DCmp(x, y) <= 0

DLt(x, y) == DCmp(x, y) < 0

\* The significand of a Python float (IEEE-754 binary64) has 53 bits.
MantBits == 53

\* q, or q + 1 when the s bits cut off below it (r) are more than half a unit,
\* or exactly half and q is odd
RoundHalfEven(q, r, s) ==
    LET c == BCmp(r, BShl(<<1>>, s - 1))
    IN  IF c > 0 \/ (c = 0 /\ BIsOdd(q)) THEN BAdd(q, <<1>>) ELSE q

\* the float nearest to the dyadic x
Round(x) ==
    LET n == BBitLen(x.mant)
        s == n - MantBits
    IN  IF s <= 0 THEN x
        ELSE DNorm(x.neg,
                   RoundHalfEven(BShr(x.mant, s), BLowBits(x.mant, s), s),
                   x.exp + s)

FAdd(x, y) == Round(DAdd(x, y))

FSub(x, y) == Round(DSub(x, y))

FMul(x, y) == Round(DMul(x, y))

GuardBits == 5 * LimbBits

\* the float x / k for an integer 0 < k < Base: the quotient is taken with
\* GuardBits extra bits and a sticky bit for the remainder, then rounded
FDivInt(x, k) ==
    IF x.mant = <<>> THEN Zero
    ELSE LET dr == BDivRem(BShl(x.mant, GuardBits), k)
             q2 == BAdd(BMulSmall(BNorm(dr[1]), 2),
                        IF dr[2] # 0 THEN <<1>> ELSE <<>>)
         IN  Round(DNorm(x.neg, q2, x.exp - GuardBits - 1))

\* floor(|x|) as a natural number
DIntPart(x) ==
    IF x.exp >= 0 THEN BShl(x.mant, x.exp) ELSE BShr(x.mant, -x.exp)

\* int(x): truncation toward zero
PyInt(x) == LET v == BToInt(DIntPart(x)) IN IF x.neg THEN -v ELSE v

\* fmod(|x|, w) for an integer w > 0: exact
DFmodAbs(x, w) ==
    DSub(DAbs(x), DNorm(FALSE, BMulSmall(BDiv(DIntPart(x), w), w), 0))

\* x % w for a float x and an integer w > 0 (float_rem): fmod, then + w when
\* the remainder is negative
PyMod(x, w) ==
    LET r == DFmodAbs(x, w)
    IN  IF ~x.neg \/ r = Zero THEN r ELSE FAdd(DNeg(r), DOfInt(w))

\* int(x // w) for a float x and an integer w > 0
PyFloorDiv(x, w) ==
    LET q == BToInt(BDiv(DIntPart(x), w))
    IN  IF ~x.neg THEN q
        ELSE IF DFmodAbs(x, w) = Zero THEN -q ELSE -(q + 1)

\* f"{x:.2f}": the sign and the hundredths nearest to |x| (ties to even)
FormatFixed2(x) ==
    LET n == BMulSmall(x.mant, 100)
        s == -x.exp
        h == IF s <= 0 THEN BShl(n, x.exp)
             ELSE RoundHalfEven(BShr(n, s), BLowBits(n, s), s)
    IN  [neg |-> x.neg, hund |-> BToInt(h)]

\* float("<h/100 written with two decimals>")
FloatOfHundredths(h) == FDivInt(DOfInt(h), 100)

(***************************************************************************)
(* The constant tables.                                                    *)
(***************************************************************************)
planets ==
    <<"Jupiter", "Mars", "Mercury", "Moon", "Neptune", "Pluto",
      "Saturn", "Sun", "Uranus", "Venus">>

zodiac_signs ==
    <<"Aries", "Taurus", "Gemini", "Cancer", "Leo", "Virgo", "Libra",
      "Scorpio", "Sagittarius", "Capricorn", "Aquarius", "Pisces">>

\* the keys of the aspects dict, in its iteration (insertion) order
AspectNames == <<"Conjunction", "Opposition", "Trine", "Square", "Sextile">>

aspects ==
    [a \in {AspectNames[i] : i \in 1..Len(AspectNames)} |->
        CASE a = "Conjunction" -> 0
          [] a = "Opposition"  -> 180
          [] a = "Trine"       -> 120
          [] a = "Square"      -> 90
          [] a = "Sextile"     -> 60]

orb ==
    [a \in {AspectNames[i] : i \in 1..Len(AspectNames)} |->
        IF a = "Sextile" THEN 6 ELSE 8]

\* the ten entries of calculate_natal_chart's bodies dict, in its order
bodies ==
    <<"Sun", "Moon", "Mercury", "Venus", "Mars", "Jupiter", "Saturn",
      "Uranus", "Neptune", "Pluto">>

Range(seq) == {seq[i] : i \in 1..Len(seq)}

\* seq.index(x), counted from 1; 0 when x is not in seq (Python raises ValueError)
IndexOf(seq, x) ==
    IF x \in Range(seq) THEN CHOOSE i \in 1..Len(seq) : seq[i] = x ELSE 0

(***************************************************************************)
(* The position codec.  A position string is held by its tokens: the       *)
(* number before the degree sign, the optional numbers before ' and ", and *)
(* the sign name.  A number token is its sign and its value in hundredths  *)
(* (the codec writes seconds with two decimals); NoText is an absent one.  *)
(***************************************************************************)
NoText == [neg |-> FALSE, hund |-> -1]

IntText(n) == [neg |-> n < 0, hund |-> 100 * (IF n < 0 THEN -n ELSE n)]

\* f"{d}° {m}' {s:.2f}\""
degrees_to_dms(degrees) ==
    LET d    == PyInt(degrees)
        frac == FSub(degrees, DOfInt(d))
        m    == PyInt(FMul(frac, DOfInt(60)))
        s    == FMul(FSub(frac, FDivInt(DOfInt(m), 60)), DOfInt(3600))
    IN  [deg |-> IntText(d), min |-> IntText(m), sec |-> FormatFixed2(s)]

\* f"{degrees_to_dms(position_in_sign)} {sign}", for degrees in [0, 360)
degrees_to_zodiac(degrees) ==
    LET sign             == zodiac_signs[PyFloorDiv(degrees, 30) + 1]
        position_in_sign == PyMod(degrees, 30)
        dms              == degrees_to_dms(position_in_sign)
    IN  [deg |-> dms.deg, min |-> dms.min, sec |-> dms.sec, sign |-> sign]

\* str.capitalize() on the sign names the model feeds in
Capitalize(sign) ==
    CASE sign = "pisces" -> "Pisces"
      [] sign = "ARIES"  -> "Aries"
      [] OTHER           -> sign

\* The pattern (\d+\.?\d*)°\s*(?:(\d+\.?\d*)')?\s*(?:(\d+\.?\d*)")?\s*([A-Za-z]+):
\* \d+ takes no minus sign, so a negative degrees token matches nothing; a
\* negative minutes or seconds token leaves its optional group unmatched and
\* then stands where [A-Za-z]+ must match.
PatternMatches(position) ==
    /\ position.deg # NoText /\ ~position.deg.neg
    /\ ~position.min.neg
    /\ ~position.sec.neg
    /\ position.sign # ""

TokenValue(t) == IF t = NoText THEN Zero ELSE FloatOfHundredths(t.hund)

\* [err |-> "none", value |-> the float returned], or the ValueError raised
convert_to_degrees(position) ==
    IF PatternMatches(position)
    THEN LET degrees       == TokenValue(position.deg)
             minutes       == TokenValue(position.min)
             seconds       == TokenValue(position.sec)
             sign          == Capitalize(position.sign)
             total_degrees == FAdd(FAdd(degrees, FDivInt(minutes, 60)),
                                   FDivInt(seconds, 3600))
             sign_index    == IndexOf(zodiac_signs, sign) - 1
         IN  IF sign_index < 0
             THEN [err |-> "Invalid zodiac sign", value |-> Zero]
             ELSE [err |-> "none",
                   value |-> FAdd(total_degrees, DOfInt(sign_index * 30))]
    ELSE [err |-> "Invalid position format", value |-> Zero]

(***************************************************************************)
(* Aspect geometry.                                                        *)
(***************************************************************************)
\* math.pi = 0x1.921fb54442d18p+1
Pi == [neg |-> FALSE, mant |-> <<1443, 21777, 4349, 25>>, exp |-> -48]

\* numpy's degrees(x) is x * (180.0 / pi); 180.0 / pi = 0x1.ca5dc1a63c1f8p+5
RadToDeg == [neg |-> FALSE, mant |-> <<30783, 1688, 21230, 28>>, exp |-> -44]

\* the scanner's angle_diff of a transiting and a natal longitude
ScanAngleDiff(transit_position, natal_position) ==
    LET angle_diff ==
            DAbs(PyMod(FSub(transit_position, natal_position), 360))
    IN  IF DLt(DOfInt(180), angle_diff)
        THEN FSub(DOfInt(360), angle_diff)
        ELSE angle_diff

\* theta = (degree % 360) * (np.pi / 180)
PlotTheta(degree) == FMul(PyMod(degree, 360), FDivInt(Pi, 180))

\* the aspect plot's difference of two plotted angles
PlotDifference(angle1, angle2) ==
    LET difference == DAbs(FMul(FSub(angle1, angle2), RadToDeg))
    IN  IF DLt(DOfInt(180), difference)
        THEN FSub(DOfInt(360), difference)
        ELSE difference

\* abs(difference - aspect_angle) <= orb[aspect]
PlotAspectMatches(difference, aspect) ==
    DLe(DAbs(FSub(difference, DOfInt(aspects[aspect]))), DOfInt(orb[aspect]))

(***************************************************************************)
(* State.  Each component of the program has its own variables and its own *)
(* specification; a specification leaves the other components idle.        *)
(***************************************************************************)
VARIABLES
    \* position codec: a longitude formatted, then parsed back; or a string parsed
    cpc, clon, ctext, cout,
    \* angular separation of two longitudes, taken both ways round
    gpc, ga, gb, gout,
    \* generate_aspect_plot
    ppc, positions, selected_aspects, planet_angles, planet1_ix, lines,
    \* calculate_transit_waveforms and generate_transit_waveform_plot
    spc, natal_positions, start_date, end_date, current_date, planet_ix,
    transits, sampled, scan_raised, ephem, dates, intensity_data,
    \* transit_waveforms_route
    rpc, request, route_natal, response,
    \* calculate_natal_chart, run by concurrent requests
    chpc, chin, topo, body_ix, chpositions, calls, chresult

codecVars == <<cpc, clon, ctext, cout>>
sepVars   == <<gpc, ga, gb, gout>>
plotVars  == <<ppc, positions, selected_aspects, planet_angles, planet1_ix, lines>>
scanVars  == <<spc, natal_positions, start_date, end_date, current_date,
               planet_ix, transits, sampled, scan_raised, ephem, dates,
               intensity_data>>
routeVars == <<rpc, request, route_natal, response>>
chartVars == <<chpc, chin, topo, body_ix, chpositions, calls, chresult>>

vars == <<codecVars, sepVars, plotVars, scanVars, routeVars, chartVars>>

NoResult == [err |-> "pending", value |-> Zero]

NoPosition == [deg |-> NoText, min |-> NoText, sec |-> NoText, sign |-> ""]

CodecIdle ==
    cpc = "idle" /\ clon = Zero /\ ctext = NoPosition /\ cout = NoResult

SepIdle == gpc = "idle" /\ ga = Zero /\ gb = Zero /\ gout = <<>>

PlotIdle ==
    /\ ppc = "idle" /\ positions = <<>> /\ selected_aspects = <<>>
    /\ planet_angles = <<>> /\ planet1_ix = 0 /\ lines = <<>>

ScanIdle ==
    /\ spc = "idle" /\ natal_positions = <<>> /\ start_date = 0 /\ end_date = 0
    /\ current_date = 0 /\ planet_ix = 0 /\ transits = <<>> /\ sampled = <<>>
    /\ scan_raised = "none" /\ ephem = <<>> /\ dates = <<>>
    /\ intensity_data = <<>>

RouteIdle ==
    rpc = "idle" /\ request = <<>> /\ route_natal = <<>> /\ response = <<>>

ChartIdle ==
    /\ chpc = <<>> /\ chin = <<>> /\ topo = <<>> /\ body_ix = <<>>
    /\ chpositions = <<>> /\ calls = <<>> /\ chresult = <<>>

(***************************************************************************)
(* The position codec as a state machine.                                  *)
(***************************************************************************)
\* largest whole degree within a sign the codec is fed, besides 29
MaxDeg == 2

\* the float nearest to k arc-seconds
LonOfArcsec(k) == FDivInt(DOfInt(k), 3600)

Tiny == [neg |-> FALSE, mant |-> <<1>>, exp |-> -40]

\* longitudes in [0, 360): whole arc-seconds in the first and the last sign,
\* and the floats 2^-40 below a sign boundary
CodecLongitudes ==
    {LonOfArcsec(sg * 108000 + d * 3600 + m * 60 + sec) :
        sg \in {0, 11}, d \in (0..MaxDeg) \cup {29}, m \in 0..59,
        sec \in {0, 59}}
    \cup {DSub(DOfInt(30 * k), Tiny) : k \in {1, 12}}

\* position strings a caller may post
CodecTexts ==
    {[deg |-> d, min |-> m, sec |-> sec, sign |-> sg] :
        d \in {IntText(0), IntText(20), IntText(29), IntText(45), IntText(-5)},
        m \in {NoText, IntText(26), IntText(75)},
        sec \in {NoText, [neg |-> FALSE, hund |-> 2706],
                 [neg |-> TRUE, hund |-> 0]},
        sg \in {"Aries", "Pisces", "pisces", "Ophiuchus"}}

CodecInit ==
    /\ cout = NoResult
    /\ \/ cpc = "longitude" /\ clon \in CodecLongitudes /\ ctext = NoPosition
       \/ cpc = "text" /\ clon = Zero /\ ctext \in CodecTexts
    /\ SepIdle /\ PlotIdle /\ ScanIdle /\ RouteIdle /\ ChartIdle

\* natal_chart.degrees_to_zodiac(clon)
FormatPosition ==
    /\ cpc = "longitude"
    /\ ctext' = degrees_to_zodiac(clon)
    /\ cpc' = "formatted"
    /\ UNCHANGED <<clon, cout>>

\* main.convert_to_degrees(ctext)
ParsePosition ==
    /\ cpc \in {"formatted", "text"}
    /\ cout' = convert_to_degrees(ctext)
    /\ cpc' = IF cpc = "formatted" THEN "roundtrip" ELSE "parsed"
    /\ UNCHANGED <<clon, ctext>>

CodecOthers == <<sepVars, plotVars, scanVars, routeVars, chartVars>>

CodecNext ==
    \/ FormatPosition /\ UNCHANGED CodecOthers
    \/ ParsePosition /\ UNCHANGED CodecOthers

CodecSpec == CodecInit /\ [][CodecNext]_vars

\* 1/3600 degree: |x - y| * 3600 <= 1, exactly
WithinArcsecond(x, y) ==
    DLe(DMul(DAbs(DSub(x, y)), DOfInt(3600)), DOfInt(1))

\* C5: parsing the string formatted from a longitude L in [0, 360) succeeds
\* and gives a value within 1/3600 degree of L.
C5_RoundTrip ==
    cpc = "roundtrip" =>
        cout.err = "none" /\ WithinArcsecond(cout.value, clon)

\* C6: every value convert_to_degrees returns lies in [0, 360).
C6_ParsedInRange ==
    (cpc \in {"roundtrip", "parsed"} /\ cout.err = "none") =>
        ~cout.value.neg /\ DLt(cout.value, DOfInt(360))

(***************************************************************************)
(* The angular separation of two longitudes, computed for (a, b) and for   *)
(* (b, a): as the transit scanner computes it, and as the aspect plot      *)
(* computes it from the two plotted angles.                                *)
(***************************************************************************)
\* longitudes in tenths of a degree, inside and outside [0, 360)
SepTenths == {-3701, -1, 0, 1, 80, 1234, 1801, 1900, 3599, 3600, 3601, 7205}

SepLongitudes == {FDivInt(DOfInt(k), 10) : k \in SepTenths}

SepInit ==
    /\ gpc = "start" /\ ga \in SepLongitudes /\ gb \in SepLongitudes
    /\ gout = <<>>
    /\ CodecIdle /\ PlotIdle /\ ScanIdle /\ RouteIdle /\ ChartIdle

\* transit_waveforms.py: angle_diff for (ga, gb) and for (gb, ga)
SepScan ==
    /\ gpc = "start"
    /\ gout' = <<ScanAngleDiff(ga, gb), ScanAngleDiff(gb, ga)>>
    /\ gpc' = "scanner"
    /\ UNCHANGED <<ga, gb>>

\* main.py: difference for (ga, gb) and for (gb, ga)
SepPlot ==
    /\ gpc = "scanner"
    /\ gout' = gout \o
            <<PlotDifference(PlotTheta(ga), PlotTheta(gb)),
              PlotDifference(PlotTheta(gb), PlotTheta(ga))>>
    /\ gpc' = "plot"
    /\ UNCHANGED <<ga, gb>>

SepOthers == <<codecVars, plotVars, scanVars, routeVars, chartVars>>

SepNext ==
    \/ SepScan /\ UNCHANGED SepOthers
    \/ SepPlot /\ UNCHANGED SepOthers

SepSpec == SepInit /\ [][SepNext]_vars

\* C9: the separation computed for (a, b) equals the one computed for (b, a),
\* in the scanner's computation and in the aspect plot's.
C9_SeparationSymmetric ==
    /\ Len(gout) >= 2 => gout[1] = gout[2]
    /\ Len(gout) >= 4 => gout[3] = gout[4]

(***************************************************************************)
(* generate_aspect_plot: positions is the dict of the request, in its      *)
(* order, as a sequence of <<planet, degree>>; lines are the calls of      *)
(* ax.plot, in the order they are made.                                    *)
(***************************************************************************)
PlotDegrees == {DOfInt(d) : d \in {0, 4, 12, 13, 100, 370}}

PlotPositions ==
    {<< <<"Sun", a>>, <<"Moon", b>> >> : a \in PlotDegrees, b \in PlotDegrees}
    \cup {<< <<"Mars", a>>, <<"Sun", DOfInt(4)>>, <<"Venus", b>> >> :
            a \in PlotDegrees, b \in {DOfInt(12), DOfInt(184)}}

PlotAspectLists ==
    {<<>>, <<"Conjunction">>, <<"Square", "Opposition">>, AspectNames}

PlotInit ==
    /\ ppc = "angles" /\ positions \in PlotPositions
    /\ selected_aspects \in PlotAspectLists
    /\ planet_angles = <<>> /\ planet1_ix = 0 /\ lines = <<>>
    /\ CodecIdle /\ SepIdle /\ ScanIdle /\ RouteIdle /\ ChartIdle

\* the loop over positions.items() that fills planet_angles
PlotAngles ==
    /\ ppc = "angles"
    /\ planet_angles' =
           [i \in 1..Len(positions) |->
               <<positions[i][1], PlotTheta(positions[i][2])>>]
    /\ planet1_ix' = 1
    /\ ppc' = IF Len(positions) = 0 THEN "done" ELSE "aspects"
    /\ UNCHANGED <<positions, selected_aspects, lines>>

\* the lines drawn from planet i to planet j, aspect by aspect from the k-th on
RECURSIVE AspectLines(_, _, _)
AspectLines(i, j, k) ==
    IF k > Len(selected_aspects) THEN <<>>
    ELSE LET aspect     == selected_aspects[k]
             difference == PlotDifference(planet_angles[i][2],
                                          planet_angles[j][2])
         IN  (IF PlotAspectMatches(difference, aspect)
              THEN << [planet1 |-> planet_angles[i][1],
                       planet2 |-> planet_angles[j][1],
                       aspect  |-> aspect] >>
              ELSE <<>>)
             \o AspectLines(i, j, k + 1)

\* the inner loop: planet i against every planet from the j-th on
RECURSIVE PlanetLines(_, _)
PlanetLines(i, j) ==
    IF j > Len(planet_angles) THEN <<>>
    ELSE (IF planet_angles[i][1] # planet_angles[j][1]
          THEN AspectLines(i, j, 1) ELSE <<>>)
         \o PlanetLines(i, j + 1)

\* one iteration of the outer loop over planet_angles.items()
PlotAspects ==
    /\ ppc = "aspects"
    /\ lines' = lines \o PlanetLines(planet1_ix, 1)
    /\ IF planet1_ix = Len(planet_angles)
       THEN ppc' = "done" /\ UNCHANGED planet1_ix
       ELSE planet1_ix' = planet1_ix + 1 /\ UNCHANGED ppc
    /\ UNCHANGED <<positions, selected_aspects, planet_angles>>

PlotOthers == <<codecVars, sepVars, scanVars, routeVars, chartVars>>

PlotNext ==
    \/ PlotAngles /\ UNCHANGED PlotOthers
    \/ PlotAspects /\ UNCHANGED PlotOthers

PlotSpec == PlotInit /\ [][PlotNext]_vars

\* the shorter arc between two longitudes, in exact arithmetic
ExactSeparation(a, b) ==
    LET d == DFmodAbs(DSub(a, b), 360)
    IN  IF DLt(DOfInt(180), d) THEN DSub(DOfInt(360), d) ELSE d

\* |separation - exactAngle(aspect)| <= orb(aspect), in exact arithmetic
WithinOrb(separation, aspect) ==
    DLe(DAbs(DSub(separation, DOfInt(aspects[aspect]))), DOfInt(orb[aspect]))

\* C10: a line is drawn between two distinct bodies for a requested aspect
\* kind iff |separation - exactAngle| <= orb (boundary included); none from a
\* body to itself, none for an aspect kind that was not requested.
C10_AspectLines ==
    ppc = "done" =>
        /\ \A i, j \in 1..Len(positions) : \A a \in Range(selected_aspects) :
              i # j =>
                 ([planet1 |-> positions[i][1], planet2 |-> positions[j][1],
                   aspect |-> a] \in Range(lines)
                  <=> WithinOrb(ExactSeparation(positions[i][2],
                                                positions[j][2]), a))
        /\ \A l \in Range(lines) :
              l.planet1 # l.planet2 /\ l.aspect \in Range(selected_aspects)

(***************************************************************************)
(* The transit scanner.  Dates are whole days 0..MaxDate; MaxDate stands   *)
(* for datetime.max, beyond which current_date += timedelta(days=1) raises *)
(* OverflowError.  natal_positions is the dict argument, in its order, as  *)
(* a sequence of <<planet, degree>>.                                       *)
(***************************************************************************)
MaxDate == 3

\* natal_chart.get_transit_position(current_date, planet): the ephemeris
\* oracle, a function of the instant and the body that returns a longitude in
\* [0, 360) or fails.  ephem fixes the oracle of one run: the bodies stand
\* 36 degrees apart from ephem.base on and move 4 degrees a day, and the query
\* ephem.fail, if any, is rejected.
get_transit_position(date, planet) ==
    IF ephem.fail = <<date, planet>>
    THEN [err |-> "EphemerisError", value |-> Zero]
    ELSE [err |-> "none",
          value |-> DOfInt((ephem.base + 36 * (IndexOf(planets, planet) - 1)
                            + 4 * date) % 360)]

Ephemerides ==
    {[base |-> b, fail |-> f] : b \in {10, 55}, f \in {<<>>, <<1, "Moon">>}}

ScanNatalCharts ==
    { << <<"Sun", DOfInt(10)>> >>,
      << <<"Sun", DOfInt(10)>>, <<"Moon", DOfInt(12)>> >>,
      << <<"Venus", FDivInt(DOfInt(201), 2)>>, <<"Mars", DOfInt(375)>> >> }

ScanInit ==
    /\ spc = "while"
    /\ natal_positions \in ScanNatalCharts
    /\ start_date \in 0..MaxDate /\ end_date \in 0..MaxDate
    /\ current_date = start_date
    /\ planet_ix = 0 /\ transits = <<>> /\ sampled = <<>>
    /\ scan_raised = "none" /\ ephem \in Ephemerides
    /\ dates = <<>> /\ intensity_data = <<>>
    /\ CodecIdle /\ SepIdle /\ PlotIdle /\ RouteIdle /\ ChartIdle

\* while current_date <= end_date
LoopContinuesExclusive == current_date < end_date

LoopContinues == current_date <= end_date

\* the loop over aspects.items() for natal planet n, from the k-th aspect on
RECURSIVE AspectEvents(_, _, _, _)
AspectEvents(planet, transit_position, n, k) ==
    IF k > Len(AspectNames) THEN <<>>
    ELSE LET aspect_name == AspectNames[k]
             angle_diff  == ScanAngleDiff(transit_position,
                                          natal_positions[n][2])
         IN  (IF DLe(angle_diff, DOfInt(orb[aspect_name]))
              THEN << [date              |-> current_date,
                       transiting_planet |-> planet,
                       natal_planet      |-> natal_positions[n][1],
                       aspect            |-> aspect_name,
                       intensity         |->
                           FSub(DOfInt(1),
                                FDivInt(angle_diff, orb[aspect_name]))] >>
              ELSE <<>>)
             \o AspectEvents(planet, transit_position, n, k + 1)

\* the loop over natal_positions.items(), from the n-th natal planet on
RECURSIVE NatalEventsReversed(_, _, _)
NatalEventsReversed(planet, transit_position, n) ==
    IF n > Len(natal_positions) THEN <<>>
    ELSE NatalEventsReversed(planet, transit_position, n + 1)
         \o AspectEvents(planet, transit_position, n, 1)

RECURSIVE NatalEvents(_, _, _)
NatalEvents(planet, transit_position, n) ==
    IF n > Len(natal_positions) THEN <<>>
    ELSE AspectEvents(planet, transit_position, n, 1)
         \o NatalEvents(planet, transit_position, n + 1)

\* the test of the while loop; entering the body samples current_date
ScanWhile ==
    /\ spc = "while"
    /\ IF LoopContinues
       THEN /\ spc' = "for" /\ planet_ix' = 1
            /\ sampled' = Append(sampled, current_date)
       ELSE /\ spc' = "done" /\ UNCHANGED <<planet_ix, sampled>>
    /\ UNCHANGED <<natal_positions, start_date, end_date, current_date,
                   transits, scan_raised, ephem, dates, intensity_data>>

\* one iteration of for planet in planets: the oracle is asked, its failure
\* leaves the function, and the matching events are appended
ScanPlanet ==
    /\ spc = "for"
    /\ LET planet == planets[planet_ix]
           r      == get_transit_position(current_date, planet)
       IN  IF r.err # "none"
           THEN /\ spc' = "raised" /\ scan_raised' = r.err
                /\ UNCHANGED <<planet_ix, transits>>
           ELSE /\ transits' = transits \o NatalEvents(planet, r.value, 1)
                /\ IF planet_ix = Len(planets)
                   THEN spc' = "incr" /\ UNCHANGED planet_ix
                   ELSE planet_ix' = planet_ix + 1 /\ UNCHANGED spc
                /\ UNCHANGED scan_raised
    /\ UNCHANGED <<natal_positions, start_date, end_date, current_date,
                   sampled, ephem, dates, intensity_data>>

\* current_date += timedelta(days=1)
ScanIncr ==
    /\ spc = "incr"
    /\ IF current_date = MaxDate
       THEN /\ spc' = "raised" /\ scan_raised' = "OverflowError"
            /\ UNCHANGED current_date
       ELSE /\ current_date' = current_date + 1 /\ spc' = "while"
            /\ UNCHANGED scan_raised
    /\ UNCHANGED <<natal_positions, start_date, end_date, planet_ix, transits,
                   sampled, ephem, dates, intensity_data>>

\* dates = [start_date + timedelta(days=i) for i in range(n + 1)]
DateAxis ==
    [i \in 1..(IF end_date < start_date THEN 0 ELSE end_date - start_date + 1)
        |-> start_date + i - 1]

WaveKey(t) == <<t.transiting_planet, t.aspect, t.natal_planet>>

\* index = (t['date'] - start_date).days
WaveIndex(t) == t.date - start_date

\* intensity_data[key][index] after the loop over transits: the intensity of
\* the last event of that key and index, 0 where there is none
WaveData(axis) ==
    [key \in {WaveKey(transits[i]) : i \in 1..Len(transits)} |->
        [d \in 1..Len(axis) |->
            LET hits == {i \in 1..Len(transits) :
                            /\ WaveKey(transits[i]) = key
                            /\ WaveIndex(transits[i])
                                  \in {d - 1, d - 1 - Len(axis)}}
            IN  IF hits = {} THEN Zero
                ELSE transits[CHOOSE i \in hits : \A j \in hits : j <= i]
                         .intensity]]

\* generate_transit_waveform_plot(transits, start_date, end_date), on the
\* list the scan returned; an index outside the axis raises IndexError
WaveformPlot ==
    /\ spc = "done"
    /\ dates' = DateAxis
    /\ IF \A i \in 1..Len(transits) :
             WaveIndex(transits[i]) \in (-Len(DateAxis))..(Len(DateAxis) - 1)
       THEN /\ intensity_data' = WaveData(DateAxis)
            /\ spc' = "plotted" /\ UNCHANGED scan_raised
       ELSE /\ spc' = "raised" /\ scan_raised' = "IndexError"
            /\ UNCHANGED intensity_data
    /\ UNCHANGED <<natal_positions, start_date, end_date, current_date,
                   planet_ix, transits, sampled, ephem>>

ScanOthers == <<codecVars, sepVars, plotVars, routeVars, chartVars>>

ScanNext ==
    \/ ScanWhile /\ UNCHANGED ScanOthers
    \/ ScanPlanet /\ UNCHANGED ScanOthers
    \/ ScanIncr /\ UNCHANGED ScanOthers
    \/ WaveformPlot /\ UNCHANGED ScanOthers

ScanSpec == ScanInit /\ [][ScanNext]_vars

ScanReturned == spc \in {"done", "plotted"}

\* C1: for every sampled date, transiting body, natal body and aspect kind an
\* event is emitted iff |separation - exactAngle| <= orb, with intensity
\* 1 - |separation - exactAngle| / orb; a transiting body exactly 180 degrees
\* from a natal body gives an Opposition of intensity 1.0 and no Conjunction.
C1_EventIffWithinOrb ==
    ScanReturned =>
        \A d \in Range(sampled), p \in Range(planets),
           n \in 1..Len(natal_positions), a \in Range(AspectNames) :
            LET separation ==
                    ExactSeparation(get_transit_position(d, p).value,
                                    natal_positions[n][2])
                deviation  == DAbs(DSub(separation, DOfInt(aspects[a])))
                emitted    ==
                    {i \in 1..Len(transits) :
                        /\ transits[i].date = d
                        /\ transits[i].transiting_planet = p
                        /\ transits[i].natal_planet = natal_positions[n][1]
                        /\ transits[i].aspect = a}
            IN  /\ emitted # {} <=> DLe(deviation, DOfInt(orb[a]))
                /\ \A i \in emitted :
                      transits[i].intensity =
                          FSub(DOfInt(1), FDivInt(Round(deviation), orb[a]))

\* the loop has run to its end: the scan returned, or the increment after the
\* last sample left the range of dates
LoopEnded == ScanReturned \/ scan_raised = "OverflowError"

\* The steps the scan and the plot still have to take, at most: a variant of
\* the loop.  One date costs the loop test, the ten planets and the increment.
ScanVariant ==
    LET perDate == Len(planets) + 2
        days    == IF current_date > end_date THEN 0
                   ELSE end_date - current_date + 1
    IN  CASE spc = "while" -> 2 + days * perDate
          [] spc = "for"   -> 2 + days * perDate - planet_ix
          [] spc = "incr"  -> 2 + (days - 1) * perDate + 1
          [] spc = "done"  -> 1
          [] OTHER         -> 0

\* C7: the scan samples exactly start_date + k days for 0 <= k <= n, n the
\* days from start_date to end_date (none when end_date is before
\* start_date), the loop ends (every step lowers the variant, a natural
\* number), and the plot's date axis has the same entries, so every event's
\* date index lies within it.
C7_InclusiveSamples ==
    /\ [](LoopEnded => sampled = DateAxis)
    /\ [](spc = "plotted" =>
            /\ dates = sampled
            /\ Len(dates) = (IF end_date < start_date THEN 0
                             ELSE end_date - start_date + 1)
            /\ \A i \in 1..Len(transits) :
                  WaveIndex(transits[i]) \in 0..(Len(dates) - 1))
    /\ [](ScanVariant \in Nat)
    /\ [][ScanVariant' < ScanVariant]_vars

\* a range of two days has given three samples, and events were plotted
C7_Witness ==
    /\ spc = "plotted" /\ end_date = start_date + 2
    /\ sampled = <<start_date, start_date + 1, start_date + 2>>
    /\ transits # <<>>

NatalIndex(name) ==
    CHOOSE n \in 1..Len(natal_positions) : natal_positions[n][1] = name

EventKey(t) ==
    <<t.date, IndexOf(planets, t.transiting_planet),
      NatalIndex(t.natal_planet), IndexOf(AspectNames, t.aspect)>>

\* lexicographic order on keys
KeyLess(x, y) ==
    \E k \in 1..Len(x) : x[k] < y[k] /\ \A h \in 1..(k - 1) : x[h] = y[h]

IsPrefix(x, y) == Len(x) <= Len(y) /\ SubSeq(y, 1, Len(x)) = x

\* C8: the event list only grows at its end, and is ordered by (date,
\* transiting body, natal body, aspect kind) in their iteration orders, keys
\* strictly increasing, so no combination appears twice.
C8_EventOrder ==
    /\ [](\A i, j \in 1..Len(transits) :
            i < j => KeyLess(EventKey(transits[i]), EventKey(transits[j])))
    /\ [][IsPrefix(transits, transits')]_vars

\* a returned list holding events of two dates, and two natal bodies for one
\* date and transiting body
C8_Witness ==
    /\ ScanReturned
    /\ \E i, j \in 1..Len(transits) : transits[i].date # transits[j].date
    /\ \E i, j \in 1..Len(transits) :
          /\ i < j /\ transits[i].date = transits[j].date
          /\ transits[i].transiting_planet = transits[j].transiting_planet
          /\ transits[i].natal_planet # transits[j].natal_planet

(***************************************************************************)
(* transit_waveforms_route.  A date string is the day it names, or -1 when *)
(* strptime rejects it; natal_chart is the posted dict, in its order, as a *)
(* sequence of <<planet, position string>>.                                *)
(***************************************************************************)
ScenarioA ==
    [deg |-> IntText(20), min |-> IntText(26),
     sec |-> [neg |-> FALSE, hund |-> 2706], sign |-> "Aries"]

RouteNatalCharts ==
    { <<>>,
      << <<"Sun", ScenarioA>> >>,
      << <<"Sun", ScenarioA>>,
         <<"Moon", [deg |-> IntText(12), min |-> NoText, sec |-> NoText,
                    sign |-> "pisces"]>> >>,
      << <<"Sun", [deg |-> IntText(5), min |-> NoText, sec |-> NoText,
                   sign |-> "Ophiuchus"]>> >> }

Requests ==
    [natal_chart        : RouteNatalCharts,
     start_date         : {-1, 0, 1},
     end_date           : {-1, 1, 2},
     transiting_planets : {<<>>, <<"Mars">>, <<"Sun", "Moon">>},
     aspects            : {<<>>, <<"Trine">>, AspectNames}]

Failure(status, error) ==
    [status |-> status, error |-> error, transits |-> <<>>]

RouteInit ==
    /\ rpc = "strptime" /\ request \in Requests
    /\ route_natal = <<>> /\ response = <<>>
    /\ CodecIdle /\ SepIdle /\ PlotIdle /\ ScanIdle /\ ChartIdle

\* datetime.strptime of start_date and of end_date; the except clause answers
\* 500
RouteParseDates ==
    /\ rpc = "strptime"
    /\ IF request.start_date = -1 \/ request.end_date = -1
       THEN response' = Failure(500, "ValueError") /\ rpc' = "responded"
       ELSE rpc' = "validate" /\ UNCHANGED response
    /\ UNCHANGED <<request, route_natal>>

\* if not natal_chart_positions or ... : 400 (a datetime is never false)
RouteValidate ==
    /\ rpc = "validate"
    /\ IF \/ request.natal_chart = <<>>
          \/ request.transiting_planets = <<>>
          \/ request.aspects = <<>>
       THEN response' = Failure(400, "Invalid input data")
            /\ rpc' = "responded"
       ELSE rpc' = "convert" /\ UNCHANGED response
    /\ UNCHANGED <<request, route_natal>>

Converted ==
    [i \in 1..Len(request.natal_chart) |->
        convert_to_degrees(request.natal_chart[i][2])]

\* natal_positions[planet] = convert_to_degrees(pos_str), for every planet
RouteConvert ==
    /\ rpc = "convert"
    /\ IF \E i \in 1..Len(Converted) : Converted[i].err # "none"
       THEN /\ response' = Failure(500, "ValueError") /\ rpc' = "responded"
            /\ UNCHANGED route_natal
       ELSE /\ route_natal' =
                  [i \in 1..Len(Converted) |->
                      <<request.natal_chart[i][1], Converted[i].value>>]
            /\ rpc' = "call" /\ UNCHANGED response
    /\ UNCHANGED request

\* def calculate_transit_waveforms(natal_positions, start_date, end_date)
ScanParameters == <<"natal_positions", "start_date", "end_date">>

\* transit_waveforms.calculate_transit_waveforms(natal_positions, start_date,
\* end_date, selected_transiting_planets, selected_aspects): more positional
\* arguments than the function has parameters is a TypeError, caught by the
\* route's except clause
RouteCallScan ==
    /\ rpc = "call"
    /\ LET args == <<route_natal, request.start_date, request.end_date,
                     request.transiting_planets, request.aspects>>
       IN  Len(args) > Len(ScanParameters)
    /\ response' = Failure(500, "TypeError")
    /\ rpc' = "responded"
    /\ UNCHANGED <<request, route_natal>>

RouteOthers == <<codecVars, sepVars, plotVars, scanVars, chartVars>>

RouteNext ==
    \/ RouteParseDates /\ UNCHANGED RouteOthers
    \/ RouteValidate /\ UNCHANGED RouteOthers
    \/ RouteConvert /\ UNCHANGED RouteOthers
    \/ RouteCallScan /\ UNCHANGED RouteOthers

RouteSpec == RouteInit /\ [][RouteNext]_vars

\* dates that parse, non-empty lists, positions that convert
ValidRequest ==
    /\ request.start_date # -1 /\ request.end_date # -1
    /\ request.natal_chart # <<>>
    /\ request.transiting_planets # <<>> /\ request.aspects # <<>>
    /\ \A i \in 1..Len(Converted) : Converted[i].err = "none"

\* C2: a scan invoked with the caller's lists of transiting bodies and aspect
\* kinds, as the route invokes it, runs, and emits only events of a requested
\* transiting body and a requested aspect kind.
C2_ScanOfRequestedLists ==
    (rpc = "responded" /\ ValidRequest) =>
        /\ response.status = 200
        /\ \A i \in 1..Len(response.transits) :
              /\ response.transits[i].transiting_planet
                     \in Range(request.transiting_planets)
              /\ response.transits[i].aspect \in Range(request.aspects)

(***************************************************************************)
(* calculate_natal_chart, run by two requests at once (the server handles  *)
(* each request in its own thread).  swisseph keeps the observer set by    *)
(* set_topo in one place for the whole process: topo.                      *)
(***************************************************************************)
Procs == {1, 2}

Locations ==
    { [lat |-> 52, lon |-> 13], [lat |-> 40, lon |-> -74],
      [lat |-> 0, lon |-> -30] }

\* TimezoneFinder().timezone_at(lat, lng): no zone in mid-ocean
get_timezone(lat, lon) ==
    CASE lat = 52 /\ lon = 13  -> "Europe/Berlin"
      [] lat = 40 /\ lon = -74 -> "America/New_York"
      [] OTHER                 -> "None"

\* whether strptime(f'{dob} {tob}', '%d.%m.%Y %H:%M') accepts the input
StrptimeAccepts(dob) == dob = "15.03.1990"

\* swe.set_topo(lon, lat, 0)
Observer(p) == <<chin[p].lon, chin[p].lat, 0>>

Pending == [status |-> "pending", positions |-> <<>>]

\* except Exception as e: raise RuntimeError(...): nothing is returned
Raised == [status |-> "RuntimeError", positions |-> <<>>]

ChartInit ==
    /\ chin \in [Procs -> [dob : {"15.03.1990", "1990-03-15"},
                           lat : {52, 40, 0}, lon : {13, -74, -30}]]
    /\ \A p \in Procs : [lat |-> chin[p].lat, lon |-> chin[p].lon] \in Locations
    /\ chin[1].lat # chin[2].lat
    /\ chpc = [p \in Procs |-> "strptime"]
    /\ topo = <<>>
    /\ body_ix = [p \in Procs |-> 0]
    /\ chpositions = [p \in Procs |-> <<>>]
    /\ calls = [p \in Procs |-> 0]
    /\ chresult = [p \in Procs |-> Pending]
    /\ CodecIdle /\ SepIdle /\ PlotIdle /\ ScanIdle /\ RouteIdle

ChartRaise(p) ==
    /\ chpc' = [chpc EXCEPT ![p] = "raised"]
    /\ chresult' = [chresult EXCEPT ![p] = Raised]

\* local_dt = datetime.datetime.strptime(...)
ChartStrptime(p) ==
    /\ chpc[p] = "strptime"
    /\ IF StrptimeAccepts(chin[p].dob)
       THEN chpc' = [chpc EXCEPT ![p] = "timezone"] /\ UNCHANGED chresult
       ELSE ChartRaise(p)
    /\ UNCHANGED <<chin, topo, body_ix, chpositions, calls>>

\* timezone_str = get_timezone(lat, lon); None raises ValueError
ChartTimezone(p) ==
    /\ chpc[p] = "timezone"
    /\ IF get_timezone(chin[p].lat, chin[p].lon) = "None"
       THEN ChartRaise(p)
       ELSE chpc' = [chpc EXCEPT ![p] = "julday"] /\ UNCHANGED chresult
    /\ UNCHANGED <<chin, topo, body_ix, chpositions, calls>>

\* localize, astimezone and swe.julday: the conversion succeeds or raises
\* (a date at the edge of the datetime range overflows)
ChartJulday(p) ==
    /\ chpc[p] = "julday"
    /\ \E ok \in BOOLEAN :
          IF ok
          THEN chpc' = [chpc EXCEPT ![p] = "set_topo"] /\ UNCHANGED chresult
          ELSE ChartRaise(p)
    /\ UNCHANGED <<chin, topo, body_ix, chpositions, calls>>

\* swe.set_topo(lon, lat, 0)
ChartSetTopo(p) ==
    /\ chpc[p] = "set_topo"
    /\ topo' = Observer(p)
    /\ chpc' = [chpc EXCEPT ![p] = "calc"]
    /\ body_ix' = [body_ix EXCEPT ![p] = 1]
    /\ UNCHANGED <<chin, chpositions, calls, chresult>>

\* a variant of the loop body in which a failed query is skipped
ChartCalcSkipFailed(p) ==
    /\ chpc[p] = "calc"
    /\ calls' = [calls EXCEPT ![p] = @ + 1]
    /\ \E ok \in BOOLEAN :
          /\ chpositions' =
                 IF ok
                 THEN [chpositions EXCEPT ![p] =
                          Append(@, [body |-> bodies[body_ix[p]],
                                     observer |-> topo])]
                 ELSE chpositions
          /\ IF body_ix[p] = Len(bodies)
             THEN chpc' = [chpc EXCEPT ![p] = "return"] /\ UNCHANGED body_ix
             ELSE body_ix' = [body_ix EXCEPT ![p] = @ + 1] /\ UNCHANGED chpc
          /\ UNCHANGED chresult
    /\ UNCHANGED <<chin, topo>>

\* one iteration of for body, code in bodies.items(): swe.calc_ut answers with
\* the observer that is set at that moment, or raises
ChartCalc(p) ==
    /\ chpc[p] = "calc"
    /\ calls' = [calls EXCEPT ![p] = @ + 1]
    /\ \E ok \in BOOLEAN :
          IF ok
          THEN /\ chpositions' =
                      [chpositions EXCEPT ![p] =
                          Append(@, [body |-> bodies[body_ix[p]],
                                     observer |-> topo])]
               /\ IF body_ix[p] = Len(bodies)
                  THEN chpc' = [chpc EXCEPT ![p] = "return"]
                       /\ UNCHANGED body_ix
                  ELSE body_ix' = [body_ix EXCEPT ![p] = @ + 1]
                       /\ UNCHANGED chpc
               /\ UNCHANGED chresult
          ELSE ChartRaise(p) /\ UNCHANGED <<body_ix, chpositions>>
    /\ UNCHANGED <<chin, topo>>

\* return positions
ChartReturn(p) ==
    /\ chpc[p] = "return"
    /\ chresult' = [chresult EXCEPT ![p] =
                       [status |-> "returned", positions |-> chpositions[p]]]
    /\ chpc' = [chpc EXCEPT ![p] = "done"]
    /\ UNCHANGED <<chin, topo, body_ix, chpositions, calls>>

ChartOthers == <<codecVars, sepVars, plotVars, scanVars, routeVars>>

ChartNext ==
    \/ \E p \in Procs : ChartStrptime(p) /\ UNCHANGED ChartOthers
    \/ \E p \in Procs : ChartTimezone(p) /\ UNCHANGED ChartOthers
    \/ \E p \in Procs : ChartJulday(p) /\ UNCHANGED ChartOthers
    \/ \E p \in Procs : ChartSetTopo(p) /\ UNCHANGED ChartOthers
    \/ \E p \in Procs : ChartCalc(p) /\ UNCHANGED ChartOthers
    \/ \E p \in Procs : ChartReturn(p) /\ UNCHANGED ChartOthers

ChartSpec == ChartInit /\ [][ChartNext]_vars

\* C3: every body-longitude query of a computation is made with that
\* computation's own observer (lon, lat, 0) in effect, never the other's.
C3_OwnObserver ==
    \A p \in Procs : \A i \in 1..Len(chpositions[p]) :
        chpositions[p][i].observer = Observer(p)

\* C4: calculate_natal_chart returns a mapping of all ten bodies or raises
\* and returns none, whichever step fails, also after some bodies were
\* computed; with no timezone for the coordinates no ephemeris query is made.
C4_AllOrNothing ==
    \A p \in Procs :
        /\ chresult[p].status \in {"pending", "returned", "RuntimeError"}
        /\ chresult[p].status = "returned" =>
              /\ Len(chresult[p].positions) = Len(bodies)
              /\ \A i \in 1..Len(bodies) :
                    chresult[p].positions[i].body = bodies[i]
        /\ chresult[p].status = "RuntimeError" =>
              chresult[p].positions = <<>>
        /\ chpc[p] \in {"done", "raised"} <=> chresult[p].status # "pending"
        /\ get_timezone(chin[p].lat, chin[p].lon) = "None" => calls[p] = 0

\* one computation failed at its fourth query, after three bodies were
\* computed, and raised; the other returned its ten bodies
C4_Witness ==
    \E p, q \in Procs :
        /\ chresult[p].status = "RuntimeError" /\ calls[p] = 4
        /\ Len(chpositions[p]) = 3
        /\ chresult[q].status = "returned"

====
